---- MODULE Spec2Model ----
(***************************************************************************)
(* DiceFlip: a two-player subtractive dice game solved by a depth-bounded  *)
(* negamax search with a direct-indexed transposition table.               *)
(*                                                                         *)
(* The module models the search program (state hashing, table packing,     *)
(* move generation, miniMax, makeBestMove and the game loop of main) as a  *)
(* state machine.  A call of miniMax is a frame on `stack`; every frame    *)
(* holds the locals of one activation and its position in the function.    *)
(***************************************************************************)
EXTENDS Integers, Sequences, FiniteSets, TLC

VARIABLES
    tt,            \* transpositionTable: key -> uint16, absent keys read 0 (calloc)
    stack,         \* activations of miniMax, innermost last
    ret,           \* value returned by the miniMax activation that ended last
    pc,            \* position of the driver (main, or the harness of one call)
    curState,      \* main's curState
    startTotal,    \* main's loop variable startTotal
    startMove,     \* main's loop variable startMove
    evalv,         \* main's local eval
    bmpc,          \* position inside makeBestMove
    bmI,           \* makeBestMove's i
    bmMax,         \* makeBestMove's max
    bmMaxI,        \* makeBestMove's maxI
    nextPossible,  \* makeBestMove's static array nextPossible[4]
    bestState,     \* the GameState makeBestMove returned
    call,          \* arguments of the call under examination (harness specifications)
    retAt          \* the return statement of miniMax executed last:
                   \*   "none" (no return yet), "base" (the base case),
                   \*   "exact" (EXACT table hit), "cutoff" (alpha >= beta), "max" (loop end)

vars == <<tt, stack, ret, pc, curState, startTotal, startMove, evalv,
          bmpc, bmI, bmMax, bmMaxI, nextPossible, bestState, call, retAt>>

(***************************************************************************)
(* Program constants                                                       *)
(***************************************************************************)
NODE_TYPE_EXACT == 1
NODE_TYPE_LOWER == 2
NODE_TYPE_UPPER == 3

\* main: for (int8 startTotal = 66; startTotal >= 11; startTotal--)
MaxStartTotal == 66
MinStartTotal == 11
\* main: for (Player startPlayer = -1; ...)
StartPlayer == -1
\* the depth main and makeBestMove search with, and the depth of main's report
SearchDepth == 100
ReportDepth == 63
\* the window every top-level search starts with
MinScore == -128
MaxScore == 127
\* the largest uint8, the widest depth makeTTVal can be handed
MaxU8 == 255

(***************************************************************************)
(* Bounds of the model                                                     *)
(***************************************************************************)
\* the harness of one miniMax / makeBestMove call starts games at 11..EngineTotal
EngineTotal == 13
\* the harness of one miniMax call searches with depth 1..MaxDepth
MaxDepth == 8
\* the run of main compared search by search with a zero-initialised table
\* is followed from its mid-run state through SharePasses passes of the
\* outer loop
SharePasses == 4
\* the run of main checked for termination is followed from its mid-run
\* state through FairPasses passes of the outer loop
FairPasses == 3
\* the harness of one miniMax call on a one-record table searches with depth
\* 1..ProbeDepth and stores the record with depth 1..ProbeDepth + 1
ProbeDepth == 2
\* and searches the configurations of a game with total ProbeTotal, where
\* ProbeDepth plies reach the end of the game
ProbeTotal == 6

(***************************************************************************)
(* Fixed-width integers                                                    *)
(***************************************************************************)
\* static_cast<int8>
I8(x) == ((x + 128) % 256) - 128
\* static_cast<uint8>
U8(x) == x % 256
\* static_cast<uint16>
U16(x) == x % 65536

\* bit k of x, and the four-bit digit k of x
Bit(x, k) == (x \div (2 ^ k)) % 2

Nibble(x, k) == (x \div (16 ^ k)) % 16

\* x | y and x & y on four-bit digits
NibbleOr ==
    [x \in 0..15, y \in 0..15 |->
        (IF Bit(x, 0) = 1 \/ Bit(y, 0) = 1 THEN 1 ELSE 0)
      + (IF Bit(x, 1) = 1 \/ Bit(y, 1) = 1 THEN 2 ELSE 0)
      + (IF Bit(x, 2) = 1 \/ Bit(y, 2) = 1 THEN 4 ELSE 0)
      + (IF Bit(x, 3) = 1 \/ Bit(y, 3) = 1 THEN 8 ELSE 0)]

NibbleAnd ==
    [x \in 0..15, y \in 0..15 |->
        (IF Bit(x, 0) = 1 /\ Bit(y, 0) = 1 THEN 1 ELSE 0)
      + (IF Bit(x, 1) = 1 /\ Bit(y, 1) = 1 THEN 2 ELSE 0)
      + (IF Bit(x, 2) = 1 /\ Bit(y, 2) = 1 THEN 4 ELSE 0)
      + (IF Bit(x, 3) = 1 /\ Bit(y, 3) = 1 THEN 8 ELSE 0)]

\* a | b on non-negative integers below 2^31, digit by digit
BitOrOf[a \in Nat, b \in Nat] ==
      NibbleOr[Nibble(a, 0), Nibble(b, 0)]
    + NibbleOr[Nibble(a, 1), Nibble(b, 1)] * 16
    + NibbleOr[Nibble(a, 2), Nibble(b, 2)] * 256
    + NibbleOr[Nibble(a, 3), Nibble(b, 3)] * 4096
    + NibbleOr[Nibble(a, 4), Nibble(b, 4)] * 65536
    + NibbleOr[Nibble(a, 5), Nibble(b, 5)] * 1048576
    + NibbleOr[Nibble(a, 6), Nibble(b, 6)] * 16777216
    + NibbleOr[Nibble(a, 7), Nibble(b, 7)] * 268435456

BitOr(a, b) == BitOrOf[a, b]

\* a & b on non-negative integers below 2^31, digit by digit
BitAndOf[a \in Nat, b \in Nat] ==
      NibbleAnd[Nibble(a, 0), Nibble(b, 0)]
    + NibbleAnd[Nibble(a, 1), Nibble(b, 1)] * 16
    + NibbleAnd[Nibble(a, 2), Nibble(b, 2)] * 256
    + NibbleAnd[Nibble(a, 3), Nibble(b, 3)] * 4096
    + NibbleAnd[Nibble(a, 4), Nibble(b, 4)] * 65536
    + NibbleAnd[Nibble(a, 5), Nibble(b, 5)] * 1048576
    + NibbleAnd[Nibble(a, 6), Nibble(b, 6)] * 16777216
    + NibbleAnd[Nibble(a, 7), Nibble(b, 7)] * 268435456

BitAnd(a, b) == BitAndOf[a, b]

(***************************************************************************)
(* GameState and the state encoder                                         *)
(***************************************************************************)
GameState(lastMove, total, activePlayer, winner) ==
    [lastMove |-> lastMove, total |-> total,
     activePlayer |-> activePlayer, winner |-> winner]

\* a zero-initialised GameState (static storage)
ZeroState == GameState(0, 0, 0, 0)

\* hash without the face: the configurations that differ only in the face
\* last played share a slot
hashNoFace(state) ==
    BitOr(BitOr(U8(state.total + 128),
                U8(state.activePlayer + 128) * 256),
          U8(state.winner + 128) * 65536)

\* hash with the face shifted into the player's byte (<< 8 for << 24)
hashFaceShift8(state) ==
    BitOr(BitOr(BitOr(U8(state.total + 128),
                      U8(state.activePlayer + 128) * 256),
                U8(state.winner + 128) * 65536),
          state.lastMove * 256)

\* lastMove is a face 1..6, so the key stays below 2^31 and the uint32
\* result needs no reduction
hash(state) ==
    BitOr(BitOr(BitOr(U8(state.total + 128),
                      U8(state.activePlayer + 128) * 256),
                U8(state.winner + 128) * 65536),
          state.lastMove * 16777216)

(***************************************************************************)
(* Transposition table records                                             *)
(***************************************************************************)
\* makeTTVal with the depth shifted by 10 bits: its top two bits fall off
\* the 16-bit record
makeTTValShift10(depth, e, type) ==
    U16(BitOr(BitOr(U16(U8(depth)) * 1024, U8(type) * 64), U8(e)))

makeTTVal(depth, e, type) ==
    U16(BitOr(BitOr(U16(U8(depth)) * 256, U8(type) * 64), U8(e)))

\* transpositionTable[h]
TTRead(t, h) == IF h \in DOMAIN t THEN t[h] ELSE 0

\* transpositionTable[h] = v
TTWrite(t, h, v) == (h :> v) @@ t

getDepth(t, h) == U8(TTRead(t, h) \div 256)

\* getRating reading the whole low byte of the record
getRatingByte(t, h) == I8(BitAnd(TTRead(t, h), 255))

getRating(t, h) == I8(BitAnd(TTRead(t, h), 63))

getNodeType(t, h) == U8(BitAnd(TTRead(t, h) \div 64, 3))

(***************************************************************************)
(* Rule engine                                                             *)
(***************************************************************************)
createGameState(lastMove, player, total) == GameState(lastMove, total, player, 0)

\* performMove under the normal-play rule: the player who moved wins
performMoveMoverWins(state, move) ==
    LET newTotal == I8(state.total - move)
    IN  GameState(move,
                  I8(newTotal),
                  I8(-state.activePlayer),
                  I8((IF newTotal <= 0 THEN 1 ELSE 0) * state.activePlayer))

\* performMove with the end of the game tested as newTotal < 0
performMoveStrict(state, move) ==
    LET newTotal == I8(state.total - move)
    IN  GameState(move,
                  I8(newTotal),
                  I8(-state.activePlayer),
                  I8((IF newTotal < 0 THEN 1 ELSE 0) * (-state.activePlayer)))

performMove(state, move) ==
    LET newTotal == I8(state.total - move)
    IN  GameState(move,
                  I8(newTotal),
                  I8(-state.activePlayer),
                  I8((IF newTotal <= 0 THEN 1 ELSE 0) * (-state.activePlayer)))

\* the switch with face 5 for face 4 in the case of faces 5 and 2
PossibleMovesSlip(lastMove) ==
    CASE lastMove \in {6, 1} -> <<5, 4, 3, 2>>
      [] lastMove \in {5, 2} -> <<6, 5, 3, 1>>
      [] lastMove \in {4, 3} -> <<6, 5, 2, 1>>
      [] OTHER -> << >>

\* the switch with every case written smallest face first
PossibleMovesAscending(lastMove) ==
    CASE lastMove \in {6, 1} -> <<2, 3, 4, 5>>
      [] lastMove \in {5, 2} -> <<1, 3, 4, 6>>
      [] lastMove \in {4, 3} -> <<1, 2, 5, 6>>
      [] OTHER -> << >>

\* the faces getPossibleStates plays, in the order it writes out[0..3]
PossibleMoves(lastMove) ==
    CASE lastMove \in {6, 1} -> <<5, 4, 3, 2>>
      [] lastMove \in {5, 2} -> <<6, 4, 3, 1>>
      [] lastMove \in {4, 3} -> <<6, 5, 2, 1>>
      [] OTHER -> << >>

\* out[0..3] as the sequence out[1..4]; no case of the switch writes anything
\* for a lastMove outside 1..6
getPossibleStates(lastState) ==
    LET faces == PossibleMoves(lastState.lastMove)
    IN  [k \in 1..Len(faces) |-> performMove(lastState, faces[k])]

eval(state) == (IF state.total <= 0 THEN 1 ELSE 0) * state.winner

(***************************************************************************)
(* miniMax, one activation per frame                                       *)
(*   pc = "entry"  : at the base-case test                                 *)
(*   pc = "loop"   : at the head of the loop body for child i              *)
(*   pc = "called" : inside the recursive call for child i                 *)
(***************************************************************************)
\* an activation whose depth budget is cut to 40 plies, fewer than the
\* longest game from total 66 has
FrameShallow(state, depth, alpha, beta) ==
    [st |-> state, depth |-> IF depth > 40 THEN 40 ELSE depth,
     alpha |-> alpha, beta |-> beta, max |-> -1, i |-> 0, pc |-> "entry"]

\* an activation that takes the window negated and swapped, as negamax with
\* alpha-beta pruning passes it
FrameNegated(state, depth, alpha, beta) ==
    [st |-> state, depth |-> depth, alpha |-> I8(-beta), beta |-> I8(-alpha),
     max |-> -1, i |-> 0, pc |-> "entry"]

Frame(state, depth, alpha, beta) ==
    [st |-> state, depth |-> depth, alpha |-> alpha, beta |-> beta,
     max |-> -1, i |-> 0, pc |-> "entry"]

Top == stack[Len(stack)]

Pop == SubSeq(stack, 1, Len(stack) - 1)

ReplaceTop(f) == [stack EXCEPT ![Len(stack)] = f]

\* the base case without the test on the total
BaseCaseDepthOnly(f) == f.depth = 0

\* if (depth == 0 || curState.total <= 0)
BaseCase(f) == f.depth = 0 \/ f.st.total <= 0

\* gameStates[i]
PossibleNext(f) == getPossibleStates(f.st)[f.i + 1]

\* the lookup whose cut-off returns the stored score, not the larger of it
\* and the best so far
TTLookupCutoffStored(f, t) ==
    LET hashVal == hash(PossibleNext(f))
        ttDepth == getDepth(t, hashVal)
        hit     == ttDepth > 0 /\ ttDepth >= f.depth
        e       == getRating(t, hashVal)
        type    == getNodeType(t, hashVal)
        alpha1  == IF hit /\ type = NODE_TYPE_LOWER /\ e > f.alpha THEN e ELSE f.alpha
        beta1   == IF hit /\ type = NODE_TYPE_UPPER /\ e < f.beta THEN e ELSE f.beta
    IN  IF hit /\ type = NODE_TYPE_EXACT
        THEN [kind |-> "exact", value |-> e, alpha |-> f.alpha, beta |-> f.beta]
        ELSE IF hit /\ alpha1 >= beta1
        THEN [kind |-> "cutoff", value |-> e, alpha |-> alpha1, beta |-> beta1]
        ELSE [kind |-> "call", value |-> 0, alpha |-> alpha1, beta |-> beta1]

\* the lookup without the test ttDepth >= depth: every record present counts
TTLookupUngated(f, t) ==
    LET hashVal == hash(PossibleNext(f))
        ttDepth == getDepth(t, hashVal)
        hit     == ttDepth > 0
        e       == getRating(t, hashVal)
        type    == getNodeType(t, hashVal)
        alpha1  == IF hit /\ type = NODE_TYPE_LOWER /\ e > f.alpha THEN e ELSE f.alpha
        beta1   == IF hit /\ type = NODE_TYPE_UPPER /\ e < f.beta THEN e ELSE f.beta
    IN  IF hit /\ type = NODE_TYPE_EXACT
        THEN [kind |-> "exact", value |-> e, alpha |-> f.alpha, beta |-> f.beta]
        ELSE IF hit /\ alpha1 >= beta1
        THEN [kind |-> "cutoff", value |-> IF e > f.max THEN e ELSE f.max,
              alpha |-> alpha1, beta |-> beta1]
        ELSE [kind |-> "call", value |-> 0, alpha |-> alpha1, beta |-> beta1]

\* The transposition-table lookup of the loop body for child i of frame f:
\* either the activation returns `value` at once, or it goes on to the
\* recursive call with the window [alpha, beta].
TTLookup(f, t) ==
    LET hashVal == hash(PossibleNext(f))
        ttDepth == getDepth(t, hashVal)
        hit     == ttDepth > 0 /\ ttDepth >= f.depth
        e       == getRating(t, hashVal)
        type    == getNodeType(t, hashVal)
        alpha1  == IF hit /\ type = NODE_TYPE_LOWER /\ e > f.alpha THEN e ELSE f.alpha
        beta1   == IF hit /\ type = NODE_TYPE_UPPER /\ e < f.beta THEN e ELSE f.beta
    IN  IF hit /\ type = NODE_TYPE_EXACT
        THEN [kind |-> "exact", value |-> e, alpha |-> f.alpha, beta |-> f.beta]
        ELSE IF hit /\ alpha1 >= beta1
        THEN [kind |-> "cutoff", value |-> IF e > f.max THEN e ELSE f.max,
              alpha |-> alpha1, beta |-> beta1]
        ELSE [kind |-> "call", value |-> 0, alpha |-> alpha1, beta |-> beta1]
\* The node type the loop body stores for a child value val
StoredType(val, alpha, beta) ==
    IF val <= alpha THEN NODE_TYPE_UPPER
    ELSE IF val >= beta THEN NODE_TYPE_LOWER
    ELSE NODE_TYPE_EXACT

\* return curState.activePlayer * eval(curState);
MiniMaxBase ==
    /\ stack # << >>
    /\ Top.pc = "entry"
    /\ BaseCase(Top)
    /\ ret' = I8(Top.st.activePlayer * eval(Top.st))
    /\ retAt' = "base"
    /\ stack' = Pop
    /\ UNCHANGED <<tt, pc, curState, startTotal, startMove, evalv,
                   bmpc, bmI, bmMax, bmMaxI, nextPossible, bestState, call>>

\* int8 max = -1; getPossibleStates(gameStates, curState); i = 0
MiniMaxExpand ==
    /\ stack # << >>
    /\ Top.pc = "entry"
    /\ ~BaseCase(Top)
    /\ stack' = ReplaceTop([Top EXCEPT !.max = -1, !.i = 0, !.pc = "loop"])
    /\ UNCHANGED <<tt, ret, pc, curState, startTotal, startMove, evalv,
                   bmpc, bmI, bmMax, bmMaxI, nextPossible, bestState, call, retAt>>

\* the table lookup for child i, then an early return or the recursive call
MiniMaxLookup ==
    /\ stack # << >>
    /\ Top.pc = "loop"
    /\ Top.i < 4
    /\ LET f == Top
           r == TTLookup(f, tt)
       IN  IF r.kind = "call"
           THEN /\ stack' = Append(
                       ReplaceTop([f EXCEPT !.alpha = r.alpha, !.beta = r.beta,
                                            !.pc = "called"]),
                       Frame(PossibleNext(f), U8(f.depth - 1), r.alpha, r.beta))
                /\ ret' = ret
                /\ retAt' = retAt
           ELSE /\ stack' = Pop
                /\ ret' = r.value
                /\ retAt' = r.kind
    /\ UNCHANGED <<tt, pc, curState, startTotal, startMove, evalv,
                   bmpc, bmI, bmMax, bmMaxI, nextPossible, bestState, call>>

\* val = -miniMax(...); the max update; the table store; i++; and, after the
\* fourth child, return max
MiniMaxAfterChild ==
    /\ stack # << >>
    /\ Top.pc = "called"
    /\ LET f       == Top
           hashVal == hash(PossibleNext(f))
           val     == I8(-ret)
           max1    == IF val > f.max THEN val ELSE f.max
       IN  /\ tt' = TTWrite(tt, hashVal,
                            makeTTVal(f.depth, val, StoredType(val, f.alpha, f.beta)))
           /\ IF f.i + 1 < 4
              THEN /\ stack' = ReplaceTop([f EXCEPT !.max = max1, !.i = f.i + 1,
                                                    !.pc = "loop"])
                   /\ ret' = ret
                   /\ retAt' = retAt
              ELSE /\ stack' = Pop
                   /\ ret' = max1
                   /\ retAt' = "max"
    /\ UNCHANGED <<pc, curState, startTotal, startMove, evalv,
                   bmpc, bmI, bmMax, bmMaxI, nextPossible, bestState, call>>

MiniMaxStep == MiniMaxBase \/ MiniMaxExpand \/ MiniMaxLookup \/ MiniMaxAfterChild

(***************************************************************************)
(* miniMax as a function of its arguments and the table: the score it      *)
(* returns and the table it leaves.  MiniMaxLoop is the for loop after k   *)
(* passes of its body: the frame with its window, maximum and index, the   *)
(* table, and, once a return statement in the body was taken, its value.   *)
(***************************************************************************)
RECURSIVE MiniMaxFn(_, _, _, _, _), MiniMaxLoop(_, _, _)
MiniMaxFn(state, depth, alpha, beta, t) ==
    LET f == Frame(state, depth, alpha, beta)
    IN  IF BaseCase(f)
        THEN [ret |-> I8(state.activePlayer * eval(state)), tt |-> t]
        ELSE LET s == MiniMaxLoop(f, t, 4)
             IN  [ret |-> IF s.returned THEN s.ret ELSE s.f.max, tt |-> s.tt]

MiniMaxLoop(f, t, k) ==
    IF k = 0
    THEN [f |-> f, tt |-> t, returned |-> FALSE, ret |-> 0]
    ELSE LET s == MiniMaxLoop(f, t, k - 1)
         IN  IF s.returned
             THEN s
             ELSE LET r == TTLookup(s.f, s.tt)
                  IN  IF r.kind # "call"
                      THEN [s EXCEPT !.returned = TRUE, !.ret = r.value]
                      ELSE LET child   == MiniMaxFn(PossibleNext(s.f),
                                                    U8(s.f.depth - 1),
                                                    r.alpha, r.beta, s.tt)
                               hashVal == hash(PossibleNext(s.f))
                               val     == I8(-child.ret)
                               max1    == IF val > s.f.max THEN val ELSE s.f.max
                           IN  [f |-> [s.f EXCEPT !.alpha = r.alpha,
                                                  !.beta = r.beta,
                                                  !.max = max1,
                                                  !.i = s.f.i + 1],
                                tt |-> TTWrite(child.tt, hashVal,
                                               makeTTVal(s.f.depth, val,
                                                   StoredType(val, r.alpha, r.beta))),
                                returned |-> FALSE,
                                ret |-> 0]

(***************************************************************************)
(* makeBestMove                                                            *)
(*   bmpc = "idle" : not running                                           *)
(*   bmpc = "loop" : at the head of the loop body for successor bmI        *)
(*   bmpc = "wait" : inside miniMax(nextPossible[bmI], 100, -128, 127)     *)
(*   bmpc = "ret"  : past the loop, at the test max == -2                  *)
(*   bmpc = "done" : returned, the result is bestState                     *)
(***************************************************************************)
\* the comparison as evaluation > max: the first best successor is kept
TakesOverStrict(evaluation, max) == evaluation > max

\* if (evaluation >= max)
TakesOver(evaluation, max) == evaluation >= max

\* the result with the fall-back taken always
BestMoveResultFirst(max, maxI, np) == np[1]

\* if (max == -2) return nextPossible[0]; return nextPossible[maxI];
BestMoveResult(max, maxI, np) == IF max = -2 THEN np[1] ELSE np[maxI + 1]

\* getPossibleStates(nextPossible, curState); max = -2; maxI = 0xFF; i = 0
BestMoveBegin(state) ==
    /\ nextPossible' = getPossibleStates(state)
    /\ bmMax' = -2
    /\ bmMaxI' = 255
    /\ bmI' = 0
    /\ bmpc' = "loop"

\* the call miniMax(nextPossible[i], 100, -128, 127)
BestMoveCall ==
    /\ bmpc = "loop"
    /\ bmI < 4
    /\ stack' = <<Frame(nextPossible[bmI + 1], SearchDepth, MinScore, MaxScore)>>
    /\ bmpc' = "wait"
    /\ UNCHANGED <<tt, ret, pc, curState, startTotal, startMove, evalv,
                   bmI, bmMax, bmMaxI, nextPossible, bestState, call, retAt>>

\* evaluation = -miniMax(...); the running maximum; i++
BestMoveEval ==
    /\ bmpc = "wait"
    /\ stack = << >>
    /\ LET evaluation == I8(-ret)
       IN  IF TakesOver(evaluation, bmMax)
           THEN bmMax' = evaluation /\ bmMaxI' = bmI
           ELSE UNCHANGED <<bmMax, bmMaxI>>
    /\ bmI' = bmI + 1
    /\ bmpc' = IF bmI + 1 < 4 THEN "loop" ELSE "ret"
    /\ UNCHANGED <<tt, stack, ret, pc, curState, startTotal, startMove, evalv,
                   nextPossible, bestState, call, retAt>>

BestMoveReturn ==
    /\ bmpc = "ret"
    /\ bestState' = BestMoveResult(bmMax, bmMaxI, nextPossible)
    /\ bmpc' = "done"
    /\ UNCHANGED <<tt, stack, ret, pc, curState, startTotal, startMove, evalv,
                   bmI, bmMax, bmMaxI, nextPossible, call, retAt>>

BestMoveStep == BestMoveCall \/ BestMoveEval \/ BestMoveReturn

(***************************************************************************)
(* main with AUTOINPUT: every game from 66 down to 11, every face          *)
(*   pc = "start"    : curState created, before the evaluation             *)
(*   pc = "eval"     : inside miniMax(curState, 100, -128, 127)            *)
(*   pc = "loop"     : at the test of while (curState.winner == 0)         *)
(*   pc = "computer" : inside makeBestMove, computer's turn                *)
(*   pc = "report"   : inside miniMax(curState, 63, -128, 127)             *)
(*   pc = "player"   : inside makeBestMove, player's turn                  *)
(*   pc = "huh"      : left through one of the two `huh?` returns          *)
(*   pc = "exit"     : all games played                                    *)
(***************************************************************************)
NoCall == [op |-> "none"]

\* the validity check with the opposite faces taken to sum to 6
LegalMoveSumSix(state, move) ==
    ~(move + state.lastMove = 6 \/ move = state.lastMove)

\* the faces the validity check of main accepts after lastMove
LegalMove(state, move) ==
    ~(move + state.lastMove = 7 \/ move = state.lastMove)

\* whether the game that ended in `state` contradicts the evaluation e
Huh(state, e) ==
    \/ state.winner = 1 /\ e < 1
    \/ state.winner = -1 /\ e > -1

Init ==
    /\ tt = << >>
    /\ stack = << >>
    /\ ret = 0
    /\ pc = "start"
    /\ startTotal = MaxStartTotal
    /\ startMove = 1
    /\ curState = createGameState(1, StartPlayer, MaxStartTotal)
    /\ evalv = 0
    /\ bmpc = "idle"
    /\ bmI = 0
    /\ bmMax = 0
    /\ bmMaxI = 0
    /\ nextPossible = [k \in 1..4 |-> ZeroState]
    /\ bestState = ZeroState
    /\ call = NoCall
    /\ retAt = "none"

\* int8 eval = miniMax(curState, 100, -128, 127): the call
MainEval ==
    /\ pc = "start"
    /\ stack' = <<Frame(curState, SearchDepth, MinScore, MaxScore)>>
    /\ pc' = "eval"
    /\ UNCHANGED <<tt, ret, curState, startTotal, startMove, evalv,
                   bmpc, bmI, bmMax, bmMaxI, nextPossible, bestState, call, retAt>>

\* the evaluation taken over without the change of sign for startPlayer -1
MainEvalDoneUnnegated ==
    /\ pc = "eval"
    /\ stack = << >>
    /\ evalv' = ret
    /\ pc' = "loop"
    /\ UNCHANGED <<tt, stack, ret, curState, startTotal, startMove,
                   bmpc, bmI, bmMax, bmMaxI, nextPossible, bestState, call, retAt>>

\* the call returns; if (startPlayer == -1) eval = -eval; the log line
MainEvalDone ==
    /\ pc = "eval"
    /\ stack = << >>
    /\ evalv' = IF StartPlayer = -1 THEN I8(-ret) ELSE ret
    /\ pc' = "loop"
    /\ UNCHANGED <<tt, stack, ret, curState, startTotal, startMove,
                   bmpc, bmI, bmMax, bmMaxI, nextPossible, bestState, call, retAt>>

\* computer's turn: curState = makeBestMove(curState), the call
MainComputerTurn ==
    /\ pc = "loop"
    /\ curState.winner = 0
    /\ curState.activePlayer = 1
    /\ BestMoveBegin(curState)
    /\ pc' = "computer"
    /\ UNCHANGED <<tt, stack, ret, curState, startTotal, startMove, evalv,
                   bestState, call, retAt>>

\* makeBestMove returned; then the report miniMax(curState, 63, -128, 127)
MainComputerMoved ==
    /\ pc = "computer"
    /\ bmpc = "done"
    /\ curState' = bestState
    /\ stack' = <<Frame(bestState, ReportDepth, MinScore, MaxScore)>>
    /\ bmpc' = "idle"
    /\ pc' = "report"
    /\ UNCHANGED <<tt, ret, startTotal, startMove, evalv,
                   bmI, bmMax, bmMaxI, nextPossible, bestState, call, retAt>>

MainReported ==
    /\ pc = "report"
    /\ stack = << >>
    /\ pc' = "loop"
    /\ UNCHANGED <<tt, stack, ret, curState, startTotal, startMove, evalv,
                   bmpc, bmI, bmMax, bmMaxI, nextPossible, bestState, call, retAt>>

\* player's turn with automatic input: bestState = makeBestMove(curState), the call
MainPlayerTurn ==
    /\ pc = "loop"
    /\ curState.winner = 0
    /\ curState.activePlayer # 1
    /\ BestMoveBegin(curState)
    /\ pc' = "player"
    /\ UNCHANGED <<tt, stack, ret, curState, startTotal, startMove, evalv,
                   bestState, call, retAt>>

\* move = bestState.lastMove; an invalid move is refused and the loop goes
\* round again, a valid one is performed
MainPlayerMoved ==
    /\ pc = "player"
    /\ bmpc = "done"
    /\ LET move == bestState.lastMove
       IN  IF LegalMove(curState, move)
           THEN curState' = performMove(curState, move)
           ELSE curState' = curState
    /\ bmpc' = "idle"
    /\ pc' = "loop"
    /\ UNCHANGED <<tt, stack, ret, startTotal, startMove, evalv,
                   bmI, bmMax, bmMaxI, nextPossible, bestState, call, retAt>>

\* the game is over: the two `huh?` checks, then the next game of the loops
MainGameOver ==
    /\ pc = "loop"
    /\ curState.winner # 0
    /\ IF Huh(curState, evalv)
       THEN /\ pc' = "huh"
            /\ UNCHANGED <<curState, startTotal, startMove>>
       ELSE IF startMove + 1 <= 6
       THEN /\ startMove' = startMove + 1
            /\ startTotal' = startTotal
            /\ curState' = createGameState(startMove + 1, StartPlayer, startTotal)
            /\ pc' = "start"
       ELSE IF startTotal - 1 >= MinStartTotal
       THEN /\ startMove' = 1
            /\ startTotal' = startTotal - 1
            /\ curState' = createGameState(1, StartPlayer, startTotal - 1)
            /\ pc' = "start"
       ELSE /\ pc' = "exit"
            /\ UNCHANGED <<curState, startTotal, startMove>>
    /\ UNCHANGED <<tt, stack, ret, evalv,
                   bmpc, bmI, bmMax, bmMaxI, nextPossible, bestState, call, retAt>>

MainStep ==
    \/ MainEval \/ MainEvalDone
    \/ MainComputerTurn \/ MainComputerMoved \/ MainReported
    \/ MainPlayerTurn \/ MainPlayerMoved
    \/ MainGameOver

Next == MainStep \/ BestMoveStep \/ MiniMaxStep

\* the whole run of main: the 336 games from startTotal 66 down to 11
Spec == Init /\ [][Next]_vars

(***************************************************************************)
(* main through the first pass of its outer loop: the six games with       *)
(* startTotal = 66                                                         *)
(***************************************************************************)
NextTop == Next /\ startTotal' = MaxStartTotal

SpecTop == Init /\ [][NextTop]_vars

(***************************************************************************)
(* main from the middle of its run: the state it is in when the outer loop *)
(* reaches startTotal = 24, the games 66..25 played, and the games 24..11  *)
(* from there                                                              *)
(***************************************************************************)
\* transpositionTable at that point, the non-zero slots as <<index, value>>
MidRunRecords == <<
    <<25132928, 25855>>, <<25198465, 25665>>, <<25198466, 25665>>, <<25198467, 25599>>, <<25198468, 25855>>,
    <<25198469, 25855>>, <<25198470, 25855>>, <<25198471, 25855>>, <<25198472, 25855>>, <<25198473, 25855>>,
    <<25198474, 25665>>, <<25198475, 25855>>, <<25198476, 25855>>, <<25198477, 25855>>, <<25198478, 25599>>,
    <<25198479, 25855>>, <<25198480, 25855>>, <<25198481, 25855>>, <<25198482, 25855>>, <<25198483, 25665>>,
    <<25198484, 25855>>, <<25198485, 25855>>, <<25198486, 25855>>, <<25198487, 25855>>, <<25198488, 25855>>,
    <<25198489, 25855>>, <<25198490, 25855>>, <<25198491, 25855>>, <<25198492, 25665>>, <<25198493, 25855>>,
    <<25198494, 25855>>, <<25198495, 25855>>, <<25198496, 25855>>, <<25198497, 25855>>, <<25198498, 25855>>,
    <<25198499, 25855>>, <<25198500, 25855>>, <<25198501, 25665>>, <<25198502, 25855>>, <<25198503, 25855>>,
    <<25198504, 25855>>, <<25198505, 25855>>, <<25198506, 25855>>, <<25198507, 25855>>, <<25198508, 25855>>,
    <<25198509, 25855>>, <<25198510, 25665>>, <<25198511, 25855>>, <<25198512, 25855>>, <<25198513, 25855>>,
    <<25198514, 25855>>, <<25198515, 25855>>, <<25198516, 25855>>, <<25198517, 25855>>, <<25198518, 25855>>,
    <<25198519, 25665>>, <<25198520, 25855>>, <<25198521, 25855>>, <<25198522, 25855>>, <<25198523, 25855>>,
    <<25198524, 25855>>, <<25198525, 25855>>, <<25198526, 25855>>, <<25198527, 25855>>, <<25198977, 25665>>,
    <<25198978, 25665>>, <<25198979, 25599>>, <<25198980, 16383>>, <<25198981, 25599>>, <<25198982, 25855>>,
    <<25198983, 25343>>, <<25198984, 25855>>, <<25198985, 16383>>, <<25198986, 25665>>, <<25198987, 25855>>,
    <<25198988, 25599>>, <<25198989, 16383>>, <<25198990, 25599>>, <<25198991, 25855>>, <<25198992, 25343>>,
    <<25198993, 25855>>, <<25198994, 16383>>, <<25198995, 25665>>, <<25198996, 25855>>, <<25198997, 25855>>,
    <<25198998, 25855>>, <<25198999, 16383>>, <<25199000, 25855>>, <<25199001, 25343>>, <<25199002, 25855>>,
    <<25199003, 25855>>, <<25199004, 25665>>, <<25199005, 25855>>, <<25199006, 25855>>, <<25199007, 25855>>,
    <<25199008, 25855>>, <<25199009, 25855>>, <<25199010, 25343>>, <<25199011, 25855>>, <<25199012, 25855>>,
    <<25199013, 25665>>, <<25199014, 25855>>, <<25199015, 25855>>, <<25199016, 25855>>, <<25199017, 25855>>,
    <<25199018, 25855>>, <<25199019, 25343>>, <<25199020, 25855>>, <<25199021, 25855>>, <<25199022, 25665>>,
    <<25199023, 25855>>, <<25199024, 25855>>, <<25199025, 25855>>, <<25199026, 25855>>, <<25199027, 25855>>,
    <<25199028, 25087>>, <<25199029, 25855>>, <<25199030, 25855>>, <<25199031, 25665>>, <<25199032, 25855>>,
    <<25199033, 25855>>, <<25199034, 25855>>, <<25199035, 25855>>, <<25199036, 25855>>, <<25199038, 25855>>,
    <<25199039, 25855>>, <<25199040, 25665>>, <<25264512, 16383>>, <<41910143, 25855>>, <<41910144, 25343>>,
    <<41975681, 25409>>, <<41975682, 25599>>, <<41975683, 25855>>, <<41975684, 25855>>, <<41975685, 25343>>,
    <<41975686, 25153>>, <<41975687, 25855>>, <<41975688, 25855>>, <<41975689, 25855>>, <<41975690, 25409>>,
    <<41975691, 25855>>, <<41975692, 25855>>, <<41975693, 25855>>, <<41975694, 25343>>, <<41975695, 25665>>,
    <<41975696, 25855>>, <<41975697, 25855>>, <<41975698, 25855>>, <<41975699, 25665>>, <<41975700, 25855>>,
    <<41975701, 25855>>, <<41975702, 25855>>, <<41975703, 25343>>, <<41975704, 25665>>, <<41975705, 25855>>,
    <<41975706, 25855>>, <<41975707, 25855>>, <<41975708, 25665>>, <<41975709, 25855>>, <<41975710, 25855>>,
    <<41975711, 25855>>, <<41975712, 25343>>, <<41975713, 25665>>, <<41975714, 25855>>, <<41975715, 25855>>,
    <<41975716, 25855>>, <<41975717, 25665>>, <<41975718, 25855>>, <<41975719, 25855>>, <<41975720, 25855>>,
    <<41975721, 25343>>, <<41975722, 25665>>, <<41975723, 25855>>, <<41975724, 25855>>, <<41975725, 25855>>,
    <<41975726, 25665>>, <<41975727, 25855>>, <<41975728, 25855>>, <<41975729, 25855>>, <<41975730, 25343>>,
    <<41975731, 25665>>, <<41975732, 25855>>, <<41975733, 25855>>, <<41975734, 25855>>, <<41975735, 25665>>,
    <<41975736, 25855>>, <<41975737, 25855>>, <<41975738, 25855>>, <<41975740, 25665>>, <<41975741, 25855>>,
    <<41975742, 25855>>, <<41975743, 25855>>, <<41976193, 25409>>, <<41976194, 25599>>, <<41976195, 16383>>,
    <<41976196, 25855>>, <<41976197, 25599>>, <<41976198, 25665>>, <<41976199, 25855>>, <<41976200, 16383>>,
    <<41976201, 25599>>, <<41976202, 25409>>, <<41976203, 25599>>, <<41976204, 16383>>, <<41976205, 25855>>,
    <<41976206, 25599>>, <<41976207, 25665>>, <<41976208, 25855>>, <<41976209, 16383>>, <<41976210, 25855>>,
    <<41976211, 25665>>, <<41976212, 25855>>, <<41976213, 25855>>, <<41976214, 25855>>, <<41976215, 25599>>,
    <<41976216, 25665>>, <<41976217, 25855>>, <<41976218, 25855>>, <<41976219, 25855>>, <<41976220, 25665>>,
    <<41976221, 25855>>, <<41976222, 25855>>, <<41976223, 25855>>, <<41976224, 25599>>, <<41976225, 25665>>,
    <<41976226, 25855>>, <<41976227, 25855>>, <<41976228, 25855>>, <<41976229, 25665>>, <<41976230, 25855>>,
    <<41976231, 25855>>, <<41976232, 25855>>, <<41976233, 25599>>, <<41976234, 25665>>, <<41976235, 25855>>,
    <<41976236, 25855>>, <<41976237, 25855>>, <<41976238, 25665>>, <<41976239, 25855>>, <<41976240, 25855>>,
    <<41976241, 25855>>, <<41976242, 25599>>, <<41976243, 25665>>, <<41976244, 25855>>, <<41976245, 25855>>,
    <<41976246, 25855>>, <<41976247, 25665>>, <<41976248, 25855>>, <<41976249, 25855>>, <<41976250, 25855>>,
    <<41976251, 25855>>, <<41976252, 25665>>, <<41976253, 25855>>, <<41976254, 25855>>, <<41976255, 25855>>,
    <<41976256, 25665>>, <<42041727, 16383>>, <<42041728, 25599>>, <<58687358, 25599>>, <<58687359, 25855>>,
    <<58687360, 25343>>, <<58752897, 25665>>, <<58752898, 25855>>, <<58752899, 25599>>, <<58752900, 25665>>,
    <<58752901, 25665>>, <<58752902, 25855>>, <<58752903, 25599>>, <<58752904, 25855>>, <<58752905, 25665>>,
    <<58752906, 25665>>, <<58752907, 25855>>, <<58752908, 25599>>, <<58752909, 25665>>, <<58752910, 25665>>,
    <<58752911, 25855>>, <<58752912, 25855>>, <<58752913, 25855>>, <<58752914, 25665>>, <<58752915, 25665>>,
    <<58752916, 25855>>, <<58752917, 25855>>, <<58752918, 25665>>, <<58752919, 25665>>, <<58752920, 25855>>,
    <<58752921, 25855>>, <<58752922, 25855>>, <<58752923, 25665>>, <<58752924, 25665>>, <<58752925, 25855>>,
    <<58752926, 25855>>, <<58752927, 25665>>, <<58752928, 25665>>, <<58752929, 25855>>, <<58752930, 25855>>,
    <<58752931, 25855>>, <<58752932, 25665>>, <<58752933, 25665>>, <<58752934, 25855>>, <<58752935, 25855>>,
    <<58752936, 25665>>, <<58752937, 25665>>, <<58752938, 25855>>, <<58752939, 25855>>, <<58752940, 25855>>,
    <<58752941, 25665>>, <<58752942, 25665>>, <<58752943, 25855>>, <<58752944, 25855>>, <<58752945, 25665>>,
    <<58752946, 25665>>, <<58752947, 25855>>, <<58752948, 25855>>, <<58752949, 25855>>, <<58752950, 25665>>,
    <<58752951, 25665>>, <<58752952, 25855>>, <<58752953, 25855>>, <<58752954, 25665>>, <<58752955, 25665>>,
    <<58752956, 25855>>, <<58752957, 25855>>, <<58752958, 25855>>, <<58753409, 25665>>, <<58753410, 25855>>,
    <<58753411, 25599>>, <<58753412, 25665>>, <<58753413, 25665>>, <<58753414, 25855>>, <<58753415, 25343>>,
    <<58753416, 25599>>, <<58753417, 25665>>, <<58753418, 25665>>, <<58753419, 25855>>, <<58753420, 25599>>,
    <<58753421, 25665>>, <<58753422, 25665>>, <<58753423, 25855>>, <<58753424, 25599>>, <<58753425, 25855>>,
    <<58753426, 25665>>, <<58753427, 25665>>, <<58753428, 25855>>, <<58753429, 16383>>, <<58753430, 25665>>,
    <<58753431, 25665>>, <<58753432, 25855>>, <<58753433, 25855>>, <<58753434, 25855>>, <<58753435, 25665>>,
    <<58753436, 25665>>, <<58753437, 25855>>, <<58753438, 25855>>, <<58753439, 25665>>, <<58753440, 25665>>,
    <<58753441, 25855>>, <<58753442, 25855>>, <<58753443, 25855>>, <<58753444, 25665>>, <<58753445, 25665>>,
    <<58753446, 25855>>, <<58753447, 25855>>, <<58753448, 25665>>, <<58753449, 25665>>, <<58753450, 25855>>,
    <<58753451, 25855>>, <<58753452, 25855>>, <<58753453, 25665>>, <<58753454, 25665>>, <<58753455, 25855>>,
    <<58753456, 25855>>, <<58753457, 25665>>, <<58753458, 25665>>, <<58753459, 25855>>, <<58753460, 25855>>,
    <<58753461, 25855>>, <<58753462, 25665>>, <<58753463, 25665>>, <<58753464, 25855>>, <<58753465, 25855>>,
    <<58753466, 25665>>, <<58753467, 25665>>, <<58753468, 25855>>, <<58753469, 25855>>, <<58753470, 25855>>,
    <<58753471, 25665>>, <<58818942, 25599>>, <<58818943, 25087>>, <<58818944, 25855>>, <<75464573, 25599>>,
    <<75464574, 25855>>, <<75464575, 25343>>, <<75464576, 25855>>, <<75530113, 25665>>, <<75530114, 25599>>,
    <<75530115, 25343>>, <<75530116, 25665>>, <<75530117, 25665>>, <<75530118, 25599>>, <<75530119, 25855>>,
    <<75530120, 25343>>, <<75530121, 25665>>, <<75530122, 25665>>, <<75530123, 25599>>, <<75530124, 25855>>,
    <<75530125, 25665>>, <<75530126, 25665>>, <<75530127, 25855>>, <<75530128, 25855>>, <<75530129, 25855>>,
    <<75530130, 25665>>, <<75530131, 25665>>, <<75530132, 25855>>, <<75530133, 25855>>, <<75530134, 25665>>,
    <<75530135, 25665>>, <<75530136, 25855>>, <<75530137, 25855>>, <<75530138, 25855>>, <<75530139, 25665>>,
    <<75530140, 25665>>, <<75530141, 25855>>, <<75530142, 25855>>, <<75530143, 25665>>, <<75530144, 25665>>,
    <<75530145, 25855>>, <<75530146, 25855>>, <<75530147, 25855>>, <<75530148, 25665>>, <<75530149, 25665>>,
    <<75530150, 25855>>, <<75530151, 25855>>, <<75530152, 25665>>, <<75530153, 25665>>, <<75530154, 25855>>,
    <<75530155, 25855>>, <<75530156, 25855>>, <<75530157, 25665>>, <<75530158, 25665>>, <<75530159, 25855>>,
    <<75530160, 25855>>, <<75530161, 25665>>, <<75530162, 25665>>, <<75530163, 25855>>, <<75530164, 25855>>,
    <<75530165, 25855>>, <<75530166, 25665>>, <<75530167, 25665>>, <<75530168, 25855>>, <<75530169, 25855>>,
    <<75530170, 25665>>, <<75530171, 25665>>, <<75530172, 25855>>, <<75530173, 25855>>, <<75530625, 25665>>,
    <<75530626, 25599>>, <<75530627, 25599>>, <<75530628, 25665>>, <<75530629, 25665>>, <<75530630, 25343>>,
    <<75530631, 25599>>, <<75530632, 25855>>, <<75530633, 25665>>, <<75530634, 25665>>, <<75530635, 25599>>,
    <<75530636, 25855>>, <<75530637, 25665>>, <<75530638, 25665>>, <<75530639, 25599>>, <<75530640, 25855>>,
    <<75530641, 16383>>, <<75530642, 25665>>, <<75530643, 25665>>, <<75530644, 16383>>, <<75530645, 25855>>,
    <<75530646, 25665>>, <<75530647, 25665>>, <<75530648, 25855>>, <<75530649, 25855>>, <<75530650, 25855>>,
    <<75530651, 25665>>, <<75530652, 25665>>, <<75530653, 25855>>, <<75530654, 25855>>, <<75530655, 25665>>,
    <<75530656, 25665>>, <<75530657, 25855>>, <<75530658, 25855>>, <<75530659, 25855>>, <<75530660, 25665>>,
    <<75530661, 25665>>, <<75530662, 25855>>, <<75530663, 25855>>, <<75530664, 25665>>, <<75530665, 25665>>,
    <<75530666, 25855>>, <<75530667, 25855>>, <<75530668, 25855>>, <<75530669, 25665>>, <<75530670, 25665>>,
    <<75530671, 25855>>, <<75530672, 25855>>, <<75530673, 25665>>, <<75530674, 25665>>, <<75530675, 25855>>,
    <<75530676, 25855>>, <<75530677, 25855>>, <<75530678, 25665>>, <<75530679, 25665>>, <<75530680, 25855>>,
    <<75530681, 25855>>, <<75530682, 25665>>, <<75530683, 25665>>, <<75530684, 25855>>, <<75530685, 25855>>,
    <<75530686, 25855>>, <<75596157, 25599>>, <<75596158, 25087>>, <<75596159, 25855>>, <<75596160, 16383>>,
    <<92241788, 25855>>, <<92241789, 25343>>, <<92241790, 25599>>, <<92241791, 25855>>, <<92241792, 25855>>,
    <<92307329, 25665>>, <<92307330, 25343>>, <<92307331, 25343>>, <<92307332, 25855>>, <<92307333, 25855>>,
    <<92307334, 25665>>, <<92307335, 25599>>, <<92307336, 25855>>, <<92307337, 25855>>, <<92307338, 25665>>,
    <<92307339, 25855>>, <<92307340, 25855>>, <<92307341, 25855>>, <<92307342, 25855>>, <<92307343, 25665>>,
    <<92307344, 25855>>, <<92307345, 25855>>, <<92307346, 25855>>, <<92307347, 25665>>, <<92307348, 25855>>,
    <<92307349, 25855>>, <<92307350, 25855>>, <<92307351, 25855>>, <<92307352, 25665>>, <<92307353, 25855>>,
    <<92307354, 25855>>, <<92307355, 25855>>, <<92307356, 25665>>, <<92307357, 25855>>, <<92307358, 25855>>,
    <<92307359, 25855>>, <<92307360, 25855>>, <<92307361, 25665>>, <<92307362, 25855>>, <<92307363, 25855>>,
    <<92307364, 25855>>, <<92307365, 25665>>, <<92307366, 25855>>, <<92307367, 25855>>, <<92307368, 25855>>,
    <<92307369, 25855>>, <<92307370, 25665>>, <<92307371, 25855>>, <<92307372, 25855>>, <<92307373, 25855>>,
    <<92307374, 25665>>, <<92307375, 25855>>, <<92307376, 25855>>, <<92307377, 25855>>, <<92307378, 25855>>,
    <<92307379, 25665>>, <<92307380, 25855>>, <<92307381, 25855>>, <<92307382, 25855>>, <<92307383, 25665>>,
    <<92307384, 25855>>, <<92307385, 25855>>, <<92307386, 25855>>, <<92307387, 25855>>, <<92307388, 25665>>,
    <<92307841, 25665>>, <<92307842, 25599>>, <<92307843, 25599>>, <<92307844, 16383>>, <<92307845, 16383>>,
    <<92307846, 25409>>, <<92307847, 25599>>, <<92307848, 16383>>, <<92307849, 25599>>, <<92307850, 25665>>,
    <<92307851, 25855>>, <<92307852, 25599>>, <<92307853, 16383>>, <<92307854, 16383>>, <<92307855, 25665>>,
    <<92307856, 16383>>, <<92307857, 25599>>, <<92307858, 16383>>, <<92307859, 25665>>, <<92307860, 25855>>,
    <<92307861, 25855>>, <<92307862, 25855>>, <<92307863, 25855>>, <<92307864, 25665>>, <<92307865, 25855>>,
    <<92307866, 25855>>, <<92307867, 25855>>, <<92307868, 25665>>, <<92307869, 25855>>, <<92307870, 25855>>,
    <<92307871, 25855>>, <<92307872, 25855>>, <<92307873, 25665>>, <<92307874, 25855>>, <<92307875, 25855>>,
    <<92307876, 25855>>, <<92307877, 25665>>, <<92307878, 25855>>, <<92307879, 25855>>, <<92307880, 25855>>,
    <<92307881, 25855>>, <<92307882, 25665>>, <<92307883, 25855>>, <<92307884, 25855>>, <<92307885, 25855>>,
    <<92307886, 25665>>, <<92307887, 25855>>, <<92307888, 25855>>, <<92307889, 25855>>, <<92307890, 25855>>,
    <<92307891, 25665>>, <<92307892, 25855>>, <<92307893, 25855>>, <<92307894, 25855>>, <<92307895, 25665>>,
    <<92307896, 25855>>, <<92307897, 25855>>, <<92307898, 25855>>, <<92307899, 25855>>, <<92307900, 25665>>,
    <<92307901, 25855>>, <<92373372, 16383>>, <<92373373, 25599>>, <<92373374, 25599>>, <<92373375, 16383>>,
    <<92373376, 25599>>, <<109019003, 25855>>, <<109019004, 25855>>, <<109019005, 25343>>, <<109019006, 25855>>,
    <<109019007, 25855>>, <<109019008, 25855>>, <<109084545, 25665>>, <<109084546, 25665>>, <<109084547, 25855>>,
    <<109084548, 25855>>, <<109084549, 25855>>, <<109084550, 25343>>, <<109084551, 25855>>, <<109084552, 25855>>,
    <<109084553, 25855>>, <<109084554, 25665>>, <<109084555, 25855>>, <<109084556, 25855>>, <<109084557, 25855>>,
    <<109084558, 25855>>, <<109084559, 25855>>, <<109084560, 25855>>, <<109084561, 25855>>, <<109084562, 25855>>,
    <<109084563, 25665>>, <<109084564, 25855>>, <<109084565, 25855>>, <<109084566, 25855>>, <<109084567, 25855>>,
    <<109084568, 25855>>, <<109084569, 25855>>, <<109084570, 25855>>, <<109084571, 25855>>, <<109084572, 25665>>,
    <<109084573, 25855>>, <<109084574, 25855>>, <<109084575, 25855>>, <<109084576, 25855>>, <<109084577, 25855>>,
    <<109084578, 25855>>, <<109084579, 25855>>, <<109084580, 25855>>, <<109084581, 25665>>, <<109084582, 25855>>,
    <<109084583, 25855>>, <<109084584, 25855>>, <<109084585, 25855>>, <<109084586, 25855>>, <<109084587, 25855>>,
    <<109084588, 25855>>, <<109084589, 25855>>, <<109084590, 25665>>, <<109084591, 25855>>, <<109084592, 25855>>,
    <<109084593, 25855>>, <<109084594, 25855>>, <<109084595, 25855>>, <<109084596, 25855>>, <<109084597, 25855>>,
    <<109084598, 25855>>, <<109084599, 25665>>, <<109084600, 25855>>, <<109084601, 25855>>, <<109084602, 25855>>,
    <<109085057, 25665>>, <<109085058, 25665>>, <<109085059, 25855>>, <<109085060, 16383>>, <<109085061, 25599>>,
    <<109085062, 25855>>, <<109085063, 25599>>, <<109085064, 25599>>, <<109085065, 25855>>, <<109085066, 25665>>,
    <<109085067, 25855>>, <<109085068, 25599>>, <<109085069, 16383>>, <<109085070, 25855>>, <<109085071, 25855>>,
    <<109085072, 25855>>, <<109085073, 25855>>, <<109085074, 16383>>, <<109085075, 25665>>, <<109085076, 25855>>,
    <<109085077, 25855>>, <<109085078, 25855>>, <<109085079, 25855>>, <<109085080, 25855>>, <<109085081, 25855>>,
    <<109085082, 25855>>, <<109085083, 25855>>, <<109085084, 25665>>, <<109085085, 25855>>, <<109085086, 25855>>,
    <<109085087, 25855>>, <<109085088, 25855>>, <<109085089, 25855>>, <<109085090, 25855>>, <<109085091, 25855>>,
    <<109085092, 25855>>, <<109085093, 25665>>, <<109085094, 25855>>, <<109085095, 25855>>, <<109085096, 25855>>,
    <<109085097, 25855>>, <<109085098, 25855>>, <<109085099, 25855>>, <<109085100, 25855>>, <<109085101, 25855>>,
    <<109085102, 25665>>, <<109085103, 25855>>, <<109085104, 25855>>, <<109085105, 25855>>, <<109085106, 25855>>,
    <<109085107, 25855>>, <<109085108, 25855>>, <<109085109, 25855>>, <<109085110, 25855>>, <<109085111, 25665>>,
    <<109085112, 25855>>, <<109085113, 25855>>, <<109085114, 25855>>, <<109085115, 25855>>, <<109085116, 25855>>,
    <<109150587, 16383>>, <<109150588, 25087>>, <<109150589, 25855>>, <<109150590, 25599>>, <<109150591, 25855>>,
    <<109150592, 25599>> >>

MidRunTable ==
    [h \in {MidRunRecords[n][1] : n \in DOMAIN MidRunRecords} |->
        MidRunRecords[CHOOSE n \in DOMAIN MidRunRecords : MidRunRecords[n][1] = h][2]]

\* the variables at that point: the last game, of total 25 and face 6, ended
\* on the computer's move of face 1 from total 1 to total 0, and the report
\* search on the finished game returned 1 from the base case
MidRun ==
    [tt |-> MidRunTable,
     ret |-> 1,
     retAt |-> "base",
     startTotal |-> 24,
     startMove |-> 1,
     curState |-> createGameState(1, StartPlayer, 24),
     evalv |-> -1,
     bmI |-> 4,
     bmMax |-> -1,
     bmMaxI |-> 3,
     nextPossible |-> <<GameState(6, -5, -1, -1), GameState(5, -4, -1, -1),
                        GameState(2, -1, -1, -1), GameState(1, 0, -1, -1)>>,
     bestState |-> GameState(1, 0, -1, -1)]

InitMidRun ==
    /\ tt = MidRun.tt
    /\ stack = << >>
    /\ ret = MidRun.ret
    /\ pc = "start"
    /\ startTotal = MidRun.startTotal
    /\ startMove = MidRun.startMove
    /\ curState = MidRun.curState
    /\ evalv = MidRun.evalv
    /\ bmpc = "idle"
    /\ bmI = MidRun.bmI
    /\ bmMax = MidRun.bmMax
    /\ bmMaxI = MidRun.bmMaxI
    /\ nextPossible = MidRun.nextPossible
    /\ bestState = MidRun.bestState
    /\ call = NoCall
    /\ retAt = MidRun.retAt

SpecMidRun == InitMidRun /\ [][Next]_vars

\* main is at the point of its run that InitMidRun describes
AtMidRun ==
    pc = "start" /\ startTotal = MidRun.startTotal /\ startMove = MidRun.startMove

\* the run of main from its start passes through the state InitMidRun
\* describes
MidRunReached ==
    AtMidRun =>
        /\ tt = MidRun.tt
        /\ stack = << >>
        /\ ret = MidRun.ret
        /\ curState = MidRun.curState
        /\ evalv = MidRun.evalv
        /\ bmpc = "idle"
        /\ bmI = MidRun.bmI
        /\ bmMax = MidRun.bmMax
        /\ bmMaxI = MidRun.bmMaxI
        /\ nextPossible = MidRun.nextPossible
        /\ bestState = MidRun.bestState
        /\ call = NoCall
        /\ retAt = MidRun.retAt

\* the passes of the outer loop from the mid-run state that the comparison
\* with a zero-initialised table follows
NextShared == Next /\ startTotal' > MidRun.startTotal - SharePasses

SpecShared == InitMidRun /\ [][NextShared]_vars

\* the passes over which termination is verified
NextFair == Next /\ startTotal' > MidRun.startTotal - FairPasses

\* main is one sequential thread: while it has a step to take, it takes it
FairSpec == InitMidRun /\ [][NextFair]_vars /\ WF_vars(NextFair)

(***************************************************************************)
(* Unpruned, table-free negamax over a depth bound: the reference value    *)
(***************************************************************************)
RECURSIVE NegaMax(_, _)
NegaMax(state, depth) ==
    IF depth = 0 \/ state.total <= 0
    THEN state.activePlayer * eval(state)
    ELSE LET out  == getPossibleStates(state)
             vals == {-NegaMax(out[k], depth - 1) : k \in DOMAIN out}
         IN  CHOOSE v \in vals : \A w \in vals : w <= v

(***************************************************************************)
(* One miniMax call on a zero-initialised table, on any configuration a    *)
(* game can reach                                                          *)
(***************************************************************************)
\* the configurations one valid move leads to, while the game runs
Successors(state) ==
    IF state.winner = 0
    THEN {performMove(state, move) : move \in {m \in 1..6 : LegalMove(state, m)}}
    ELSE {}

\* main's loop variables keep their first values here: the start is curState
InitWalk(top) ==
    /\ tt = << >>
    /\ stack = << >>
    /\ ret = 0
    /\ pc = "walk"
    /\ startTotal = top
    /\ startMove = 1
    /\ \E t \in MinStartTotal..top : \E m \in 1..6 :
          curState = createGameState(m, StartPlayer, t)
    /\ evalv = 0
    /\ bmpc = "idle"
    /\ bmI = 0
    /\ bmMax = 0
    /\ bmMaxI = 0
    /\ nextPossible = [k \in 1..4 |-> ZeroState]
    /\ bestState = ZeroState
    /\ call = NoCall
    /\ retAt = "none"

\* curState = performMove(curState, move) for a valid move, while the game runs
WalkMove ==
    /\ pc = "walk"
    /\ \E next \in Successors(curState) : curState' = next
    /\ UNCHANGED <<tt, stack, ret, pc, startTotal, startMove, evalv,
                   bmpc, bmI, bmMax, bmMaxI, nextPossible, bestState, call, retAt>>

\* miniMax(curState, depth, -128, 127)
CallMiniMax ==
    /\ pc = "walk"
    /\ \E depth \in 1..MaxDepth :
          /\ call' = [op |-> "miniMax", depth |-> depth]
          /\ stack' = <<Frame(curState, depth, MinScore, MaxScore)>>
    /\ pc' = "search"
    /\ UNCHANGED <<tt, ret, curState, startTotal, startMove, evalv,
                   bmpc, bmI, bmMax, bmMaxI, nextPossible, bestState, retAt>>

InitSearch == InitWalk(EngineTotal)

NextSearch == WalkMove \/ CallMiniMax \/ MiniMaxStep

SpecSearch == InitSearch /\ [][NextSearch]_vars

SearchDone == pc = "search" /\ stack = << >>

(***************************************************************************)
(* One makeBestMove call on a zero-initialised table, on any non-terminal  *)
(* configuration a game can reach                                          *)
(***************************************************************************)
\* makeBestMove(curState)
CallBestMove ==
    /\ pc = "walk"
    /\ curState.winner = 0
    /\ BestMoveBegin(curState)
    /\ call' = [op |-> "makeBestMove"]
    /\ pc' = "best"
    /\ UNCHANGED <<tt, stack, ret, curState, startTotal, startMove, evalv,
                   bestState, retAt>>

InitMove == InitWalk(EngineTotal)

NextMove == WalkMove \/ CallBestMove \/ BestMoveStep \/ MiniMaxStep

SpecMove == InitMove /\ [][NextMove]_vars

MoveDone == pc = "best" /\ bmpc = "done"

(***************************************************************************)
(* The rule engine alone: every game from every legal start                *)
(***************************************************************************)
InitRules == InitWalk(MaxStartTotal)

NextRules == WalkMove

SpecRules == InitRules /\ [][NextRules]_vars

(***************************************************************************)
(* One table record written and read back                                  *)
(***************************************************************************)
\* the scores a game of DiceFlip can end with, and the undecided score
ScoreRange == {-1, 0, 1}

NodeTypes == {NODE_TYPE_EXACT, NODE_TYPE_LOWER, NODE_TYPE_UPPER}

InitTT ==
    /\ tt = << >>
    /\ stack = << >>
    /\ ret = 0
    /\ pc = "tt_write"
    /\ startTotal = MinStartTotal
    /\ startMove = 1
    /\ curState = createGameState(1, StartPlayer, MinStartTotal)
    /\ evalv = 0
    /\ bmpc = "idle"
    /\ bmI = 0
    /\ bmMax = 0
    /\ bmMaxI = 0
    /\ nextPossible = [k \in 1..4 |-> ZeroState]
    /\ bestState = ZeroState
    /\ \E depth \in 1..MaxU8 : \E type \in NodeTypes : \E score \in ScoreRange :
          call = [op |-> "store", hashVal |-> hash(curState),
                  depth |-> depth, type |-> type, score |-> score]
    /\ retAt = "none"

\* transpositionTable[hashVal] = makeTTVal(depth, score, type)
StoreRecord ==
    /\ pc = "tt_write"
    /\ tt' = TTWrite(tt, call.hashVal, makeTTVal(call.depth, call.score, call.type))
    /\ pc' = "tt_read"
    /\ UNCHANGED <<stack, ret, curState, startTotal, startMove, evalv,
                   bmpc, bmI, bmMax, bmMaxI, nextPossible, bestState, call, retAt>>

NextTT == StoreRecord

SpecTT == InitTT /\ [][NextTT]_vars

(***************************************************************************)
(* The configurations reachable from the legal starts 11..66, faces 1..6   *)
(***************************************************************************)
LegalStarts ==
    {createGameState(m, StartPlayer, t) : m \in 1..6, t \in MinStartTotal..MaxStartTotal}

RECURSIVE Closure(_, _)
Closure(seen, frontier) ==
    IF frontier = {} THEN seen
    ELSE LET new == (UNION {Successors(c) : c \in frontier}) \ seen
         IN  Closure(seen \cup new, new)

Reachable == Closure(LegalStarts, LegalStarts)

\* the key of every reachable configuration
KeyOf == [c \in Reachable |-> hash(c)]

(***************************************************************************)
(* One miniMax call with any window, on a table that holds one record for  *)
(* one successor of the configuration searched, a configuration late in a  *)
(* game                                                                    *)
(*   pc = "probe"  : before the record is stored                           *)
(*   pc = "stored" : the record is in the table, before the call           *)
(*   pc = "search" : inside miniMax(curState, depth, alpha, beta)          *)
(***************************************************************************)
\* the bounds of the window: the widest ones and the scores inside them
ProbeWindow == {MinScore, 0, 1, MaxScore}

InitProbe ==
    /\ tt = << >>
    /\ stack = << >>
    /\ ret = 0
    /\ pc = "probe"
    /\ startTotal = MinStartTotal
    /\ startMove = 1
    /\ \E c \in {x \in Reachable : x.total = ProbeTotal /\ x.lastMove = 1} :
          curState = c
    /\ evalv = 0
    /\ bmpc = "idle"
    /\ bmI = 0
    /\ bmMax = 0
    /\ bmMaxI = 0
    /\ nextPossible = [k \in 1..4 |-> ZeroState]
    /\ bestState = ZeroState
    /\ \E i \in 0..3 : \E stored \in 1..(ProbeDepth + 1) :
       \E type \in NodeTypes : \E score \in ScoreRange :
       \E depth \in 1..ProbeDepth : \E alpha \in ProbeWindow : \E beta \in ProbeWindow :
          call = [op |-> "probe",
                  hashVal |-> hash(getPossibleStates(curState)[i + 1]),
                  stored |-> stored, type |-> type, score |-> score,
                  depth |-> depth, alpha |-> alpha, beta |-> beta]
    /\ retAt = "none"

\* transpositionTable[hashVal] = makeTTVal(stored, score, type)
ProbeStore ==
    /\ pc = "probe"
    /\ tt' = TTWrite(tt, call.hashVal, makeTTVal(call.stored, call.score, call.type))
    /\ pc' = "stored"
    /\ UNCHANGED <<stack, ret, curState, startTotal, startMove, evalv,
                   bmpc, bmI, bmMax, bmMaxI, nextPossible, bestState, call, retAt>>

\* miniMax(curState, depth, alpha, beta)
ProbeCall ==
    /\ pc = "stored"
    /\ stack' = <<Frame(curState, call.depth, call.alpha, call.beta)>>
    /\ pc' = "search"
    /\ UNCHANGED <<tt, ret, curState, startTotal, startMove, evalv,
                   bmpc, bmI, bmMax, bmMaxI, nextPossible, bestState, call, retAt>>

NextProbe == ProbeStore \/ ProbeCall \/ MiniMaxStep

SpecProbe == InitProbe /\ [][NextProbe]_vars

(***************************************************************************)
(* Claims                                                                  *)
(***************************************************************************)

\* C1: with the table enabled and zero-initialised, miniMax(c, d, -128, 127)
\* returns the score of the unpruned, table-free negamax of c over depth d,
\* for every configuration c a game can reach and every depth d.
PruningEquivalence ==
    SearchDone => ret = NegaMax(curState, call.depth)

\* C2: every game main plays ends with the winner the initial evaluation
\* predicted (winner 1 only with eval 1, winner -1 only with eval -1), and
\* neither `huh?` return is reached.
PredictedOutcome ==
    /\ pc # "huh"
    /\ (pc = "loop" /\ curState.winner = 1) => evalv = 1
    /\ (pc = "loop" /\ curState.winner = -1) => evalv = -1

\* a game the computer won, as predicted
PredictedOutcomeWitness ==
    pc = "loop" /\ curState.winner = 1 /\ curState.total <= 0 /\ evalv = 1

\* the value, for the mover of the parent, of moving to successor `state`
MoverValue(state) == -NegaMax(state, SearchDepth)

\* the best value among the four successors of `state`
BestValue(state) ==
    LET out  == getPossibleStates(state)
        vals == {MoverValue(out[k]) : k \in DOMAIN out}
    IN  CHOOSE v \in vals : \A w \in vals : w <= v

\* C3: makeBestMove(c) returns one of the four legal successors of c, and its
\* brute-force full-depth negamax value for the mover of c is the maximum
\* over the four successors.
MoveOptimality ==
    MoveDone =>
        /\ \E k \in 1..4 : bestState = getPossibleStates(curState)[k]
        /\ bestState \in Successors(curState)
        /\ MoverValue(bestState) = BestValue(curState)

\* makeBestMove has answered for total 7, face 1, where only some of the
\* successors are optimal
MoveOptimalityWitness ==
    /\ MoveDone
    /\ curState.total = 7
    /\ curState.lastMove = 1
    /\ \E k \in 1..4 : MoverValue(getPossibleStates(curState)[k]) < BestValue(curState)
    /\ MoverValue(bestState) = BestValue(curState)

\* C4: no two distinct reachable configurations have the same key.
EncoderInjective ==
    LET key == hash(curState)
    IN  /\ curState \in Reachable
        /\ \A c \in Reachable : KeyOf[c] = key => c = curState

\* a terminal configuration and a reachable one that differs from it in the
\* winner and the player alone, with different keys
EncoderInjectiveWitness ==
    /\ curState.total <= 0
    /\ LET key == hash(curState)
       IN  \E c \in Reachable :
              /\ c.total = curState.total
              /\ c.lastMove = curState.lastMove
              /\ c.winner # curState.winner
              /\ KeyOf[c] # key

\* C5: a record written with makeTTVal(depth, score, type) reads back as
\* depth, type and score, for depth 1..255, the three node types and the
\* scores -1, 0, 1.
TableRoundTrip ==
    pc = "tt_read" =>
        /\ getDepth(tt, call.hashVal) = call.depth
        /\ getNodeType(tt, call.hashVal) = call.type
        /\ getRating(tt, call.hashVal) = call.score

\* C6: a configuration with total <= 0 produced by performMove carries as
\* winner (and as eval) the new active player, never the player who moved.
TerminalCorrectness ==
    [][curState'.total <= 0 =>
          /\ curState'.winner = curState'.activePlayer
          /\ curState'.winner # curState.activePlayer
          /\ eval(curState') = curState'.winner]_vars

\* a move has brought the total to zero or below
TerminalCorrectnessWitness ==
    /\ pc = "walk"
    /\ curState.total <= 0
    /\ curState.winner = curState.activePlayer
    /\ curState.winner \in {-1, 1}

\* C7: getPossibleStates writes exactly 4 successors, with pairwise distinct
\* faces, none of them the input's face or 7 minus the input's face.
LegalMoveCount ==
    curState.lastMove \in 1..6 =>
        LET out == getPossibleStates(curState)
        IN  /\ Len(out) = 4
            /\ \A j, k \in 1..4 : j # k => out[j].lastMove # out[k].lastMove
            /\ \A k \in 1..4 :
                  /\ out[k].lastMove \in 1..6
                  /\ out[k].lastMove # curState.lastMove
                  /\ out[k].lastMove # 7 - curState.lastMove

\* a configuration reached by a move, with its four successors
LegalMoveCountWitness ==
    /\ curState.lastMove = 5
    /\ curState.total < MinStartTotal
    /\ {getPossibleStates(curState)[k].lastMove : k \in 1..4} = {1, 3, 4, 6}

\* the index makeBestMove's loop ends with: the last successor whose value
\* for the mover is the best one
LastBest(state) ==
    LET out == getPossibleStates(state)
        at  == {k \in DOMAIN out : MoverValue(out[k]) = BestValue(state)}
    IN  CHOOSE k \in at : \A j \in at : j <= k

\* C8: among the successors that attain the maximum, makeBestMove returns the
\* one latest in enumeration order, and the fall-back to the first successor
\* (max still -2) is not taken.
TieBreakLast ==
    MoveDone =>
        /\ bmMax # -2
        /\ bmMaxI + 1 = LastBest(curState)
        /\ bestState = getPossibleStates(curState)[LastBest(curState)]

\* a tie between the first successor and a later one, resolved to the later
TieBreakLastWitness ==
    /\ MoveDone
    /\ MoverValue(getPossibleStates(curState)[1]) = BestValue(curState)
    /\ LastBest(curState) > 1
    /\ bestState = getPossibleStates(curState)[LastBest(curState)]

\* C9, as stated: the four faces are enumerated in ascending face value.
SuccessorOrderAscending ==
    curState.lastMove \in 1..6 =>
        LET out == getPossibleStates(curState)
        IN  \A k \in 1..3 : out[k].lastMove < out[k + 1].lastMove

\* C9, amended: the four faces are enumerated in descending face value,
\* skipping the two excluded faces (out[0] the largest legal face, out[3]
\* the smallest).
SuccessorOrderDescending ==
    curState.lastMove \in 1..6 =>
        LET out == getPossibleStates(curState)
        IN  /\ Len(out) = 4
            /\ \A k \in 1..3 : out[k].lastMove > out[k + 1].lastMove
            /\ \A m \in 1..6 :
                  (m > out[1].lastMove \/ m < out[4].lastMove)
                      => (m = curState.lastMove \/ m = 7 - curState.lastMove)

\* after a move of face 3 the enumeration runs 6, 5, 2, 1
SuccessorOrderWitness ==
    /\ curState.lastMove = 3
    /\ curState.total < MinStartTotal
    /\ curState.winner = 0
    /\ [k \in 1..4 |-> getPossibleStates(curState)[k].lastMove] = <<6, 5, 2, 1>>

\* C10: in every reachable configuration winner # 0 exactly if total <= 0.
WinnerInvariant ==
    (curState.winner # 0) <=> (curState.total <= 0)

\* a game that ended on total 0 exactly
WinnerInvariantWitness ==
    curState.total = 0 /\ curState.winner # 0

\* C11: the evaluation main logs for a start, miniMax(initial, 100, -128, 127)
\* on the table the earlier games left, is -1 or 1: never 0, never a rating
\* such as 63 read out of a record.
DecisiveEvaluation ==
    /\ (pc = "eval" /\ stack = << >>) => ret \in {-1, 1}
    /\ pc \in {"loop", "computer", "report", "player", "huh", "exit"}
          => evalv \in {-1, 1}

\* the evaluation of a game has just returned, through an EXACT record that
\* an earlier game left in the table
DecisiveEvaluationWitness ==
    /\ pc = "eval"
    /\ stack = << >>
    /\ startTotal <= MidRun.startTotal
    /\ retAt = "exact"
    /\ ret = 1

\* miniMax(c, 100, -128, 127) on a zero-initialised table
ZeroTableScore(c) == MiniMaxFn(c, SearchDepth, MinScore, MaxScore, << >>).ret

\* C12: each depth-100 search main starts, for its evaluation or inside
\* makeBestMove, on the table all earlier searches left, returns the score
\* the same call returns on a zero-initialised table.
TableIndependence ==
    /\ (pc = "eval" /\ stack = << >>) => ret = ZeroTableScore(curState)
    /\ (bmpc = "wait" /\ stack = << >>)
          => ret = ZeroTableScore(nextPossible[bmI + 1])

\* a search of makeBestMove has returned the score of an EXACT record left
\* by an earlier search
TableIndependenceWitness ==
    /\ bmpc = "wait"
    /\ stack = << >>
    /\ startTotal <= MidRun.startTotal
    /\ retAt = "exact"
    /\ nextPossible[bmI + 1].total > 0

\* C13: in the call trees main and makeBestMove start from the start total
\* 66, at depth 100 or 63, no activation runs out of depth on a configuration
\* still in play: every tree starts with depth 100 or 63, each activation has
\* one ply less than its caller and at least as many plies left as its
\* configuration has points, so an activation with depth 0 has total <= 0;
\* the base case is entered only on finished games, and no return of miniMax
\* yields the neutral score 0.
BaseCaseOnlyTerminal ==
    /\ stack # << >> => stack[1].depth \in {SearchDepth, ReportDepth}
    /\ \A k \in 2..Len(stack) : stack[k].depth = stack[k - 1].depth - 1
    /\ \A k \in DOMAIN stack :
          /\ stack[k].depth >= stack[k].st.total
          /\ stack[k].depth = 0 => stack[k].st.total <= 0
    /\ (stack # << >> /\ Top.pc = "entry" /\ BaseCase(Top))
          => Top.st.total <= 0 /\ Top.st.winner # 0
    /\ retAt # "none" => ret # 0

\* the base case has just returned inside the evaluation of the start with
\* total 66 and face 1, twelve plies down: the finished game is scored -1 or
\* 1 for its side to move, with 88 plies of the depth left
BaseCaseOnlyTerminalWitness ==
    /\ pc = "eval"
    /\ curState.total = MaxStartTotal
    /\ Len(stack) >= 12
    /\ stack[1].depth = SearchDepth
    /\ Top.pc = "called"
    /\ Top.depth <= SearchDepth - 11
    /\ retAt = "base"
    /\ PossibleNext(Top).total <= 0
    /\ ret \in {-1, 1}

\* C14: with automatic input every iteration of main's game loop, computer's
\* or player's, ends with a strictly smaller total (so the player's move is
\* never sent back as invalid), every game started reaches winner # 0, and
\* once the winner is set no further turn is taken in that game.
GameTermination ==
    /\ [][(pc \in {"computer", "player"} /\ pc' \in {"report", "loop"})
             => curState'.total < curState.total]_vars
    /\ [][curState.winner # 0
             => /\ pc' \notin {"computer", "player"}
                /\ curState' = curState \/ pc' = "start"]_vars
    /\ (pc = "start") ~> (pc = "loop" /\ curState.winner # 0)

\* a game has ended on the player's automatic move, which the validity check
\* let through
GameTerminationWitness ==
    /\ pc = "loop"
    /\ curState.winner # 0
    /\ curState.total <= 0
    /\ curState.activePlayer = 1
    /\ bmpc = "idle"
    /\ bestState.lastMove = curState.lastMove

\* the record miniMax finds for child i of its top activation, and the
\* window the lookup leaves: the switch on the node type runs only on a
\* record with ttDepth > 0 and ttDepth >= depth
LookupAt ==
    LET f       == Top
        key     == hash(getPossibleStates(f.st)[f.i + 1])
        ttDepth == getDepth(tt, key)
        hit     == ttDepth > 0 /\ ttDepth >= f.depth
        type    == getNodeType(tt, key)
        e       == getRating(tt, key)
    IN  [depth |-> ttDepth, type |-> type, e |-> e,
         alpha |-> IF hit /\ type = NODE_TYPE_LOWER /\ e > f.alpha THEN e ELSE f.alpha,
         beta  |-> IF hit /\ type = NODE_TYPE_UPPER /\ e < f.beta THEN e ELSE f.beta]

\* the top activation is at the table lookup for its child i
AtLookup == stack # << >> /\ Top.pc = "loop" /\ Top.i < 4

\* C15: a lookup ends the call without the recursive call only (a) on a
\* record with storedDepth >= depth that reads EXACT, returning the stored
\* score, or (b) on a record with storedDepth >= depth that reads LOWER or
\* UPPER and closes the window (alpha >= beta after the adjustment),
\* returning the larger of the stored score and the best so far; a LOWER or
\* UPPER record that leaves the window open only moves alpha or beta, and
\* the child is searched with that window.
ExactShortCircuit ==
    [][AtLookup =>
         LET f == Top
             r == LookupAt
         IN  /\ Len(stack') < Len(stack) =>
                  /\ r.depth >= f.depth
                  /\ \/ /\ r.type = NODE_TYPE_EXACT
                        /\ ret' = r.e
                     \/ /\ r.type \in {NODE_TYPE_LOWER, NODE_TYPE_UPPER}
                        /\ r.alpha >= r.beta
                        /\ ret' = IF r.e > f.max THEN r.e ELSE f.max
             /\ (/\ r.depth >= f.depth
                 /\ r.type \in {NODE_TYPE_LOWER, NODE_TYPE_UPPER}
                 /\ r.alpha < r.beta) =>
                  /\ Len(stack') = Len(stack) + 1
                  /\ stack'[Len(stack')].st = getPossibleStates(f.st)[f.i + 1]
                  /\ stack'[Len(stack')].alpha = r.alpha
                  /\ stack'[Len(stack')].beta = r.beta
                  /\ stack'[Len(stack)].alpha = r.alpha
                  /\ stack'[Len(stack)].beta = r.beta]_vars

\* the call has ended at the lookup of the stored record, which closed the
\* window, with the best score so far above the stored one
ExactShortCircuitWitness ==
    /\ pc = "search"
    /\ stack = << >>
    /\ retAt = "cutoff"
    /\ call.stored >= call.depth
    /\ getNodeType(tt, call.hashVal) = NODE_TYPE_UPPER
    /\ ret > getRating(tt, call.hashVal)

\* C16: a lookup that finds a record with 0 < storedDepth < depth goes on to
\* the recursive call as it does on an empty slot: the child is pushed with
\* depth - 1 and the caller's alpha and beta, the caller keeps its window and
\* its best score, and nothing is returned or stored.
DepthGating ==
    [][(AtLookup /\ LookupAt.depth > 0 /\ LookupAt.depth < Top.depth) =>
         LET f == Top
         IN  /\ stack' = Append(ReplaceTop([f EXCEPT !.pc = "called"]),
                                Frame(getPossibleStates(f.st)[f.i + 1],
                                      f.depth - 1, f.alpha, f.beta))
             /\ tt' = tt
             /\ ret' = ret
             /\ retAt' = retAt]_vars

\* the child is at its entry although its slot holds an EXACT record, stored
\* with a depth below the caller's
DepthGatingWitness ==
    /\ pc = "search"
    /\ Len(stack) = 2
    /\ Top.pc = "entry"
    /\ stack[1].pc = "called"
    /\ hash(Top.st) = call.hashVal
    /\ getDepth(tt, call.hashVal) > 0
    /\ getDepth(tt, call.hashVal) < stack[1].depth
    /\ getNodeType(tt, call.hashVal) = NODE_TYPE_EXACT
    /\ Top.alpha = call.alpha
    /\ Top.beta = call.beta

\* C17: when the recursive call for a child returns to an activation of depth
\* d, the child's slot afterwards holds a record with depth field d and node
\* type UPPER if val <= alpha, LOWER if val >= beta, else EXACT, whatever it
\* held before; the base case and the early returns change no slot.
UnconditionalStore ==
    [][/\ (stack # << >> /\ Top.pc = "called") =>
             LET f   == Top
                 key == hash(getPossibleStates(f.st)[f.i + 1])
                 val == I8(-ret)
             IN  /\ getDepth(tt', key) = f.depth
                 /\ getNodeType(tt', key) =
                        IF val <= f.alpha THEN NODE_TYPE_UPPER
                        ELSE IF val >= f.beta THEN NODE_TYPE_LOWER
                        ELSE NODE_TYPE_EXACT
       /\ (stack # << >> /\ Top.pc # "called" /\ Len(stack') < Len(stack))
             => tt' = tt]_vars

\* C18: in the searches main and makeBestMove start with alpha = -128 and
\* beta = 127 on the shared table, every activation has alpha = -128 and
\* alpha < beta, each child starts with the window its caller has at the
\* call, no lookup finds a LOWER record and no search leaves one in the
\* table, and no call returns through the cut-off test alpha >= beta.
WindowNeverCloses ==
    /\ \A k \in DOMAIN stack :
          /\ stack[k].alpha = MinScore
          /\ stack[k].alpha < stack[k].beta
    /\ (Len(stack) >= 2 /\ Top.pc = "entry") =>
          /\ Top.alpha = stack[Len(stack) - 1].alpha
          /\ Top.beta = stack[Len(stack) - 1].beta
    /\ AtLookup => LookupAt.type # NODE_TYPE_LOWER
    /\ stack = << >> =>
          \A h \in DOMAIN tt : getNodeType(tt, h) # NODE_TYPE_LOWER
    /\ retAt # "cutoff"

\* a child is searched with the beta its caller lowered to the rating 63 of
\* an UPPER record that an earlier game left
WindowNeverClosesWitness ==
    /\ pc \in {"eval", "computer", "player", "report"}
    /\ startTotal <= MidRun.startTotal
    /\ Len(stack) >= 2
    /\ Top.pc = "entry"
    /\ Top.alpha = MinScore
    /\ Top.beta < MaxScore
    /\ stack[Len(stack) - 1].beta = Top.beta

\* C19: on the table main's searches (depth 100 and 63) fill from the
\* zero-initialised one, every slot written holds a depth field in 1..100,
\* and a lookup reads a depth field above 0 exactly when the key it reads was
\* stored before.
SentinelUnambiguous ==
    /\ [](AtLookup =>
             LET key == hash(getPossibleStates(Top.st)[Top.i + 1])
             IN  /\ (getDepth(tt, key) > 0) <=> (key \in DOMAIN tt)
                 /\ getDepth(tt, key) \in 0..SearchDepth)
    /\ [][(stack # << >> /\ Top.pc = "called") =>
             LET key == hash(getPossibleStates(Top.st)[Top.i + 1])
             IN  /\ key \in DOMAIN tt'
                 /\ getDepth(tt', key) \in 1..SearchDepth]_vars

\* a lookup on a slot never written, which reads depth 0, beside slots
\* written earlier in the search, which read the depth they were written at
SentinelUnambiguousWitness ==
    /\ AtLookup
    /\ LookupAt.depth = 0
    /\ hash(getPossibleStates(Top.st)[Top.i + 1]) \notin DOMAIN tt
    /\ \E h \in DOMAIN tt : getDepth(tt, h) \in 1..SearchDepth

\* the configurations the program holds: the game's, the activations', and
\* the successors and the result of a running makeBestMove
Configurations ==
    {curState} \cup {stack[k].st : k \in DOMAIN stack}
        \cup (IF bmpc = "idle" THEN {} ELSE {nextPossible[k] : k \in 1..4})
        \cup (IF bmpc = "done" THEN {bestState} ELSE {})

\* C20: from the start total 66 every configuration of the game loop and of
\* the searches has -5 <= total <= 66 and lastMove in 1..6, only
\* configurations with total > 0 are expanded, by miniMax or by
\* makeBestMove, and a successor's total is its parent's minus the face
\* played, without wrapping; total + 128 is a byte.
TotalInRange ==
    /\ \A c \in Configurations :
          /\ c.total \in -5..MaxStartTotal
          /\ c.lastMove \in 1..6
          /\ U8(c.total + 128) = c.total + 128
    /\ \A k \in DOMAIN stack : stack[k].pc # "entry" => stack[k].st.total > 0
    /\ bmpc # "idle" => \A k \in 1..4 :
          nextPossible[k].total + nextPossible[k].lastMove \in 1..MaxStartTotal
    /\ \A k \in 2..Len(stack) :
          stack[k].st.total = stack[k - 1].st.total - stack[k].st.lastMove

\* inside the evaluation of a start with total 66, a finished game with
\* total -5 is at its base case
TotalInRangeWitness ==
    /\ pc = "eval"
    /\ curState.total = MaxStartTotal
    /\ stack # << >>
    /\ Top.pc = "entry"
    /\ Top.st.total = -5
    /\ Top.st.lastMove = 6

====
